---- MODULE Spec2Model ----
(***************************************************************************)
(* Brazen::Simulator<1> (include/simulator.h) as a state machine: the      *)
(* particle and spring containers, the three output buffers and their      *)
(* role pointers, the two mutexes, the running flag, the physics thread    *)
(* handle, and the position of every thread inside the member function it  *)
(* is executing.  Tuples are one-dimensional (Tuple<1>), numbers integers. *)
(***************************************************************************)
EXTENDS Integers, Sequences, FiniteSets, TLC

\* ------------------------------------------------------------------ bounds
MaxParticles == 2   \* addParticle calls in a run
MaxSprings == 1     \* addSpring calls in a run
MaxCycles == 3      \* integration cycles in a run (manual and background)
MaxLoops == 2       \* start() calls in a run
MaxDt == 1          \* largest time step, in model ticks
MaxSteps == 10      \* Particle::update calls on a particle outside a Simulator
MaxForce == 1       \* largest force component placed in an accumulator
MaxCoord == 4       \* largest vertex coordinate of a collision object
MaxCalls == 2        \* resolveObjectCollision calls in a row on the same pair of objects
MaxRounds == 2      \* Spring::update / Particle::update rounds on a spring outside a Simulator

\* ----------------------------------------------------------------- threads
LoopNames == <<"loop1", "loop2", "loop3", "loop4">>
Loops == {LoopNames[n] : n \in 1..MaxLoops}
Callers == {"main", "aux", "reader"}
Threads == Callers \cup Loops
BufIds == {1, 2, 3}
DtValues == 1..MaxDt
RandomUnits == {-1, 1}

\* a magnitude that keeps the sign
SignedValue(x) == x

\* magnitude of a Tuple<1>
Abs(x) == IF x < 0 THEN -x ELSE x

\* ---------------------------------------------------------------- particle
\* Particle(pos, vel, mass): invMass = mass > 0 ? 1/mass : 0 (masses 0 and 1)
Particle(pos, vel, mass) ==
  [pos |-> pos, vel |-> vel, F |-> 0,
   m_delta_pos |-> 0, m_delta_vel |-> 0,
   m_delta_pos_hard |-> 0, m_delta_vel_hard |-> 0,
   mass |-> mass, invMass |-> IF mass > 0 THEN 1 \div mass ELSE 0]

\* Particle(const Particle&): copies pos, vel, mass, invMass; the rest is zero
ParticleCopy(p) ==
  [pos |-> p.pos, vel |-> p.vel, F |-> 0,
   m_delta_pos |-> 0, m_delta_vel |-> 0,
   m_delta_pos_hard |-> 0, m_delta_vel_hard |-> 0,
   mass |-> p.mass, invMass |-> p.invMass]

ParticleInputs == {Particle(0, 1, 1), Particle(2, 0, 0)}

\* an update that moves the particle before it changes the velocity
ParticleUpdateExplicit(p, dt) ==
  LET movable == p.invMass > 0
      pos1 == IF movable
                THEN p.pos + p.m_delta_pos * p.invMass
                ELSE p.pos + p.m_delta_pos_hard
      vel1 == IF movable
                THEN p.vel + p.m_delta_vel * p.invMass + p.F * (p.invMass * dt)
                ELSE p.vel + p.m_delta_vel_hard
  IN [p EXCEPT !.vel = vel1,
               !.pos = pos1 + p.vel * dt,
               !.m_delta_vel_hard = IF movable THEN @ ELSE 0,
               !.m_delta_pos_hard = IF movable THEN @ ELSE 0,
               !.m_delta_vel = 0,
               !.m_delta_pos = 0,
               !.F = 0]

\* Particle::update(seconds_per_cycle)
ParticleUpdate(p, dt) ==
  LET movable == p.invMass > 0
      vel1 == IF movable
                THEN p.vel + p.m_delta_vel * p.invMass + p.F * (p.invMass * dt)
                ELSE p.vel + p.m_delta_vel_hard
      pos1 == IF movable
                THEN p.pos + p.m_delta_pos * p.invMass
                ELSE p.pos + p.m_delta_pos_hard
  IN [p EXCEPT !.vel = vel1,
               !.pos = pos1 + vel1 * dt,
               !.m_delta_vel_hard = IF movable THEN @ ELSE 0,
               !.m_delta_pos_hard = IF movable THEN @ ELSE 0,
               !.m_delta_vel = 0,
               !.m_delta_pos = 0,
               !.F = 0]

\* OutputParticle(): pos zero.  cyc is a history field: the number of the
\* integration cycle that wrote the slot, 0 for a slot no cycle has written.
OutputParticle == [pos |-> 0, cyc |-> 0]

\* a clone that leaves the position at zero
CloneNothing(p, c) == [pos |-> 0, cyc |-> c]

\* OutputParticle::clone(p), stamped with the writing cycle
Clone(p, c) == [pos |-> p.pos, cyc |-> c]

\* ------------------------------------------------------------------ spring
\* Spring(natural_length, force_strength): an ideal spring, endpoints unset.
\* deformation_coefficient is a fraction <<numerator, denominator>>.
Spring(natural_length, force_strength) ==
  [p1 |-> -1, p2 |-> -1, natural_length |-> natural_length,
   compression_force_strength |-> force_strength,
   tension_force_strength |-> force_strength,
   compression_force_type |-> "SPRING", tension_force_type |-> "SPRING",
   deformation_coefficient |-> <<0, 1>>]

SpringInputs == {Spring(1, 1)}

\* unit(v): v / |v|, a randomly oriented unit vector for the zero vector
Unit(v, rnd) == IF Abs(v) > 0 THEN v \div Abs(v) ELSE rnd

\* a force that is added to the first endpoint only
AddForceOneSided(ps, a, b, force_vector) == [ps EXCEPT ![a].F = @ + force_vector]

\* p1->F += force_vector; p2->F -= force_vector
AddForce(ps, a, b, force_vector) ==
  [ps EXCEPT ![a].F = @ + force_vector, ![b].F = @ - force_vector]

\* case SpringForceType::STRONG.  x * invinvMassSum is x \div invMassSum,
\* which is exact for the even displacements, speeds and forces drawn here.
StrongUpdate(ps, a, b, axis, k, displacement) ==
  LET p1 == ps[a]
      p2 == ps[b]
      invMassSum == p1.invMass + p2.invMass
      Scaled(x) == IF invMassSum > 0 THEN x \div invMassSum ELSE 0
      m_delta_pos == axis * Scaled(k * displacement)
      m_delta_vel == axis * Scaled(k * (p1.vel * axis - p2.vel * axis))
      delta_F == axis * Scaled(k * (p1.invMass * p1.F * axis - p2.invMass * p2.F * axis))
      q1 == IF invMassSum > 0
              THEN [p1 EXCEPT !.m_delta_pos = @ - m_delta_pos,
                              !.m_delta_vel = @ - m_delta_vel,
                              !.F = @ - delta_F]
              ELSE [p1 EXCEPT !.m_delta_pos_hard = @ - m_delta_pos,
                              !.m_delta_vel_hard = @ - m_delta_vel]
      q2 == IF invMassSum > 0
              THEN [p2 EXCEPT !.m_delta_pos = @ + m_delta_pos,
                              !.m_delta_vel = @ + m_delta_vel,
                              !.F = @ + delta_F]
              ELSE [p2 EXCEPT !.m_delta_pos_hard = @ + m_delta_pos,
                              !.m_delta_vel_hard = @ + m_delta_vel]
      total_change == q1.F * axis - q2.F * axis
      mutual_change_vector == axis * ((k * total_change) \div 2)
  IN [ps EXCEPT ![a] = [q1 EXCEPT !.F = @ - mutual_change_vector],
                ![b] = [q2 EXCEPT !.F = @ + mutual_change_vector]]

\* a natural length that moves away from the current distance
DeformedAway(natural_length, distance, c) ==
  natural_length - ((distance - natural_length) * c[1]) \div c[2]

\* natural_length += displacement * deformation_coefficient
Deformed(natural_length, distance, c) ==
  natural_length + ((distance - natural_length) * c[1]) \div c[2]

\* Spring::update for the force types SPRING, CONSTANT, STRONG and NO_FORCE:
\* the pair <<particles, spring>> after the update
SpringUpdate(ps, s, rnd) ==
  LET a == s.p1 + 1
      b == s.p2 + 1
      P1toP2 == ps[b].pos - ps[a].pos
      distance == Abs(P1toP2)
      axis == Unit(P1toP2, rnd)
      nl == Deformed(s.natural_length, distance, s.deformation_coefficient)
      displacement == distance - nl
      compressed == distance < nl
      k == IF compressed THEN s.compression_force_strength ELSE s.tension_force_strength
      type == IF compressed THEN s.compression_force_type ELSE s.tension_force_type
      force_magnitude == IF type = "SPRING" THEN k * displacement
                         ELSE IF displacement >= 0 THEN k ELSE -k
      s2 == [s EXCEPT !.natural_length = nl]
  IN IF distance = s.natural_length THEN <<ps, s>>
     ELSE IF type = "NO_FORCE" THEN <<ps, s2>>
     ELSE IF type = "STRONG"
       THEN <<StrongUpdate(ps, a, b, axis, k, displacement), s2>>
     ELSE <<AddForce(ps, a, b, axis * force_magnitude), s2>>

\* for (Spring& s : springs) s.update(): the springs in container order
RECURSIVE SpringsUpdate(_, _, _, _)
SpringsUpdate(ps, ss, n, rnd) ==
  IF n > Len(ss) THEN <<ps, ss>>
  ELSE LET r == SpringUpdate(ps, ss[n], rnd)
       IN SpringsUpdate(r[1], [ss EXCEPT ![n] = r[2]], n + 1, rnd)

\* ------------------------------------------------------------------- state
VARIABLES
  particles,       \* std::vector<Particle*> particles
  springs,         \* std::vector<Spring> springs
  bufs,            \* the three vectors allocated by the constructor
  write_output,    \* which vector is being written to
  latest_output,   \* which vector has just been written to
  read_output,     \* which vector is protected for reading
  output_mutex,    \* "free" or the thread holding it
  output_is_ready,
  physics_mutex,   \* "free" or the thread holding it
  running,         \* std::atomic_bool running
  physics_thread,  \* "none" (not joinable) or the thread the handle owns
  pc,              \* where each thread is in the function it executes
  idx,             \* the cycle's particle index i, per thread
  dt,              \* the cycle's seconds_per_cycle, per thread
  stamp,           \* history: the number of the cycle a thread is running
  spawned,         \* start(): the thread just constructed, not yet assigned
  alive,           \* FALSE once exit() or std::terminate() ended the process
  cycles,          \* history: integration cycles begun so far
  nswaps,          \* history: write/latest swaps completed so far
  mode,            \* history: "Running" from start()'s return to stop()'s return
  begun,           \* history: background cycles begun since running was cleared
  uo_entry,        \* history: nswaps when the current updateOutput() was entered
  uo_base,         \* history: nswaps at entry of the last updateOutput() that returned true
  uo_ret,          \* history: what the last updateOutput() returned
  uo_fresh,        \* history: a swap completed between uo_base and that return
  us_running,      \* history: per thread, mode when its updateState() was called
  stepped,         \* history: the last call made was an updateState() that has returned
  fx               \* the objects a function is applied to, outside any Simulator

sim == <<particles, springs>>
roles == <<write_output, latest_output, read_output>>
locks == <<output_mutex, physics_mutex>>
ctl == <<running, physics_thread, spawned, mode, begun>>
locals == <<idx, dt, stamp>>
uo == <<uo_entry, uo_base, uo_ret, uo_fresh>>
simvars == <<particles, springs, bufs, write_output, latest_output, read_output,
             output_mutex, output_is_ready, physics_mutex, running, physics_thread,
             pc, idx, dt, stamp, spawned, alive, cycles, nswaps, mode, begun,
             uo_entry, uo_base, uo_ret, uo_fresh, us_running, stepped>>
vars == <<simvars, fx>>

\* Simulator(): three empty vectors, output_is_ready(false), running(false)
SimInit ==
  /\ particles = <<>>
  /\ springs = <<>>
  /\ bufs = [b \in BufIds |-> <<>>]
  /\ write_output = 1
  /\ latest_output = 2
  /\ read_output = 3
  /\ output_mutex = "free"
  /\ output_is_ready = FALSE
  /\ physics_mutex = "free"
  /\ running = FALSE
  /\ physics_thread = "none"
  /\ pc = [t \in Threads |-> IF t \in Loops THEN "unspawned" ELSE "idle"]
  /\ idx = [t \in Threads |-> 0]
  /\ dt = [t \in Threads |-> 0]
  /\ stamp = [t \in Threads |-> 0]
  /\ spawned = "none"
  /\ alive = TRUE
  /\ cycles = 0
  /\ nswaps = 0
  /\ mode = "Idle"
  /\ begun = 0
  /\ uo_entry = 0
  /\ uo_base = 0
  /\ uo_ret = "none"
  /\ uo_fresh = FALSE
  /\ us_running = [t \in Threads |-> FALSE]
  /\ stepped = FALSE

\* no object outside the Simulator
NoFx == [kind |-> "none"]

Init == SimInit /\ fx = NoFx

Goto(t, l) == pc' = [pc EXCEPT ![t] = l]

\* the history counters stop counting at MaxCycles
Bump(n) == IF n < MaxCycles THEN n + 1 ELSE n

\* --------------------------------------------------------- role rotations
Roles == [write |-> write_output, latest |-> latest_output, read |-> read_output]

SetRoles(r) ==
  /\ write_output' = r.write
  /\ latest_output' = r.latest
  /\ read_output' = r.read

\* a rotation that copies the pointer instead of exchanging it
CopyWriteToLatest(r) == [r EXCEPT !.latest = r.write]

\* a cycle that leaves the role pointers as they are
KeepRoles(r) == r

\* swap_ptr = latest_output; latest_output = write_output; write_output = swap_ptr
SwapWriteLatest(r) == [r EXCEPT !.latest = r.write, !.write = r.latest]

\* a publish that copies the pointer instead of exchanging it
CopyLatestToRead(r) == [r EXCEPT !.read = r.latest]

\* swap_ptr = latest_output; latest_output = read_output; read_output = swap_ptr
SwapLatestRead(r) == [r EXCEPT !.latest = r.read, !.read = r.latest]

\* ------------------------------------------------- one integration cycle
\* a loop that ignores the running flag
LoopForever == TRUE

\* a loop whose condition is false from the start
LoopNever == FALSE

\* while (running.load())
LoopCondition == running

\* a physics_lock whose scope extends over the buffer swap
HeldAcrossSwap(t) == t

\* the closing brace of "Do physics stuff": physics_lock releases physics_mutex
PhysicsAfterCycle(t) == "free"

\* lock physics_mutex; for (Spring& s : springs) s.update();
CyclePhysics(t) ==
  /\ alive
  /\ pc[t] = "physics"
  /\ physics_mutex = "free"
  /\ physics_mutex' = t
  /\ \E rnd \in RandomUnits :
       LET r == SpringsUpdate(particles, springs, 1, rnd)
       IN particles' = r[1] /\ springs' = r[2]
  /\ cycles' = Bump(cycles)
  /\ stamp' = [stamp EXCEPT ![t] = Bump(cycles)]
  /\ idx' = [idx EXCEPT ![t] = 0]
  /\ begun' = IF t \in Loops /\ ~running THEN begun + 1 ELSE begun
  /\ Goto(t, "particles")
  /\ UNCHANGED <<fx, stepped, bufs, roles, output_mutex, output_is_ready,
                 running,
                 physics_thread, spawned, mode, dt, alive, nswaps, uo, us_running>>

\* one iteration of  for (i = 0; i < particles.size(); i++) { update; clone }
\* or, when i has reached particles.size(), the end of the locked scope
CycleParticle(t) ==
  /\ alive
  /\ pc[t] = "particles"
  /\ IF idx[t] < Len(particles)
       THEN LET i == idx[t] + 1
                p == ParticleUpdate(particles[i], dt[t])
            IN /\ particles' = [particles EXCEPT ![i] = p]
               /\ IF i <= Len(bufs[write_output])
                    THEN /\ bufs' = [bufs EXCEPT ![write_output][i] = Clone(p, stamp[t])]
                         /\ alive' = alive
                    ELSE /\ bufs' = bufs       \* at(i) throws std::out_of_range
                         /\ alive' = FALSE
               /\ idx' = [idx EXCEPT ![t] = i]
               /\ UNCHANGED <<physics_mutex, pc>>
       ELSE /\ physics_mutex' = PhysicsAfterCycle(t)
            /\ Goto(t, "swap")
            /\ UNCHANGED <<particles, bufs, idx, alive>>
  /\ UNCHANGED <<fx, stepped, springs, roles, output_mutex, output_is_ready,
                 ctl, dt, stamp,
                 cycles, nswaps, uo, us_running>>

\* lock output_mutex; swap write_output and latest_output
CycleSwap(t) ==
  /\ alive
  /\ pc[t] = "swap"
  /\ output_mutex = "free"
  /\ output_mutex' = t
  /\ SetRoles(SwapWriteLatest(Roles))
  /\ nswaps' = Bump(nswaps)
  /\ Goto(t, "mark")
  /\ UNCHANGED <<fx, stepped, sim, bufs, output_is_ready, physics_mutex, ctl,
                 locals, alive,
                 cycles, uo, us_running>>

\* output_is_ready = true; unlock output_mutex; back to the loop condition
\* (asyncLoop) or to the caller (updateState)
CycleMark(t) ==
  /\ alive
  /\ stepped' = (t \notin Loops /\ ~running /\ physics_thread = "none")
  /\ pc[t] = "mark"
  /\ output_is_ready' = TRUE
  /\ output_mutex' = "free"
  /\ Goto(t, IF t \in Loops THEN "check" ELSE "idle")
  /\ idx' = [idx EXCEPT ![t] = 0]
  /\ dt' = [dt EXCEPT ![t] = 0]
  /\ stamp' = [stamp EXCEPT ![t] = 0]
  /\ us_running' = [us_running EXCEPT ![t] = FALSE]
  /\ UNCHANGED <<fx, sim, bufs, roles, physics_mutex, ctl, alive, cycles, nswaps, uo>>

\* asyncLoop: the loop condition, then the clock reading that gives the step
LoopIterate(t) ==
  /\ alive
  /\ pc[t] = "check"
  /\ IF LoopCondition
       THEN /\ \E d \in DtValues : dt' = [dt EXCEPT ![t] = d]
            /\ Goto(t, "physics")
       ELSE /\ dt' = dt
            /\ Goto(t, "done")
  /\ UNCHANGED <<fx, stepped, sim, bufs, roles, locks, output_is_ready, ctl,
                 idx, stamp, alive,
                 cycles, nswaps, uo, us_running>>

\* the same step in a run of at most MaxCycles integration cycles
LoopCheck(t) ==
  /\ LoopCondition => cycles < MaxCycles
  /\ LoopIterate(t)

\* updateState(seconds_per_cycle): if (running) exit(EXIT_FAILURE)
UpdateStateCheck(c, d) ==
  /\ alive
  /\ stepped' = FALSE
  /\ pc[c] = "idle"
  /\ cycles < MaxCycles
  /\ IF running
       THEN /\ alive' = FALSE
            /\ UNCHANGED <<pc, dt, us_running>>
       ELSE /\ alive' = alive
            /\ Goto(c, "physics")
            /\ dt' = [dt EXCEPT ![c] = d]
            /\ us_running' = [us_running EXCEPT ![c] = (mode = "Running")]
  /\ UNCHANGED <<fx, sim, bufs, roles, locks, output_is_ready, ctl, idx, stamp,
                 cycles, nswaps, uo>>

\* --------------------------------------------------------- mutation calls
Push(b, x) == [b EXCEPT ![x] = Append(@, OutputParticle)]

PushOutputsNoRead(b, r) == Push(Push(b, r.write), r.latest)

\* write_output->push_back(..); latest_output->push_back(..); read_output->push_back(..)
PushOutputs(b, r) == Push(Push(Push(b, r.write), r.latest), r.read)

\* addParticle: std::lock_guard physics_lock(physics_mutex)
AddParticleLockPhysics(c) ==
  /\ alive
  /\ stepped' = FALSE
  /\ pc[c] = "idle"
  /\ Len(particles) < MaxParticles
  /\ physics_mutex = "free"
  /\ physics_mutex' = c
  /\ Goto(c, "ap_lockO")
  /\ UNCHANGED <<fx, sim, bufs, roles, output_mutex, output_is_ready, ctl,
                 locals,
                 alive, cycles, nswaps, uo, us_running>>

\* addParticle: std::lock_guard output_lock(output_mutex)
AddParticleLockOutput(c) ==
  /\ alive
  /\ pc[c] = "ap_lockO"
  /\ output_mutex = "free"
  /\ output_mutex' = c
  /\ Goto(c, "ap_push")
  /\ UNCHANGED <<fx, stepped, sim, bufs, roles, physics_mutex,
                 output_is_ready, ctl, locals,
                 alive, cycles, nswaps, uo, us_running>>

\* addParticle: particles.push_back(new Particle(new_particle))
AddParticlePush(c, p) ==
  /\ alive
  /\ pc[c] = "ap_push"
  /\ particles' = Append(particles, ParticleCopy(p))
  /\ Goto(c, "ap_bufs")
  /\ UNCHANGED <<fx, stepped, springs, bufs, roles, locks, output_is_ready,
                 ctl, locals,
                 alive, cycles, nswaps, uo, us_running>>

\* addParticle: the three push_backs, then both guards release
AddParticleOutputs(c) ==
  /\ alive
  /\ pc[c] = "ap_bufs"
  /\ bufs' = PushOutputs(bufs, Roles)
  /\ output_mutex' = "free"
  /\ physics_mutex' = "free"
  /\ Goto(c, "idle")
  /\ UNCHANGED <<fx, stepped, sim, roles, output_is_ready, ctl, locals,
                 alive, cycles, nswaps,
                 uo, us_running>>

\* addSpring: std::lock_guard physics_lock(physics_mutex)
AddSpringLockPhysics(c) ==
  /\ alive
  /\ stepped' = FALSE
  /\ pc[c] = "idle"
  /\ Len(springs) < MaxSprings
  /\ physics_mutex = "free"
  /\ physics_mutex' = c
  /\ Goto(c, "as_lockO")
  /\ UNCHANGED <<fx, sim, bufs, roles, output_mutex, output_is_ready, ctl,
                 locals,
                 alive, cycles, nswaps, uo, us_running>>

\* addSpring: std::lock_guard output_lock(output_mutex)
AddSpringLockOutput(c) ==
  /\ alive
  /\ pc[c] = "as_lockO"
  /\ output_mutex = "free"
  /\ output_mutex' = c
  /\ Goto(c, "as_body")
  /\ UNCHANGED <<fx, stepped, sim, bufs, roles, physics_mutex,
                 output_is_ready, ctl, locals,
                 alive, cycles, nswaps, uo, us_running>>

\* an at() that accepts every index
AnyIndex(p) == TRUE

\* particles.at(p): the index is that of an existing particle
InRange(p) == p >= 0 /\ p < Len(particles)

\* Spring::setEndpoints rejects equal endpoints as a fatal precondition violation
SetEndpointsOk(p1, p2) == p1 # p2

SetEndpoints(s, p1, p2) == [s EXCEPT !.p1 = p1, !.p2 = p2]

\* addSpring: springs.push_back(Spring(s));
\* springs.at(size - 1).setEndpoints(particles.at(p1), particles.at(p2));
\* an index out of range throws out of at(), equal endpoints exit
AddSpringBody(c, s, p1, p2) ==
  /\ alive
  /\ pc[c] = "as_body"
  /\ IF InRange(p1) /\ InRange(p2) /\ SetEndpointsOk(p1, p2)
       THEN /\ springs' = Append(springs, SetEndpoints(s, p1, p2))
            /\ alive' = alive
       ELSE /\ springs' = Append(springs, s)
            /\ alive' = FALSE
  /\ output_mutex' = "free"
  /\ physics_mutex' = "free"
  /\ Goto(c, "idle")
  /\ UNCHANGED <<fx, stepped, particles, bufs, roles, output_is_ready, ctl,
                 locals, cycles,
                 nswaps, uo, us_running>>

\* ---------------------------------------------------------- start and stop
Unspawned == {n \in 1..MaxLoops : pc[LoopNames[n]] = "unspawned"}

NewThread == LoopNames[CHOOSE n \in Unspawned : \A m \in Unspawned : n <= m]

\* start: running = true
StartSetRunning(c) ==
  /\ alive
  /\ stepped' = FALSE
  /\ pc[c] = "idle"
  /\ Unspawned # {}
  /\ running' = TRUE
  /\ Goto(c, "st_spawn")
  /\ UNCHANGED <<fx, sim, bufs, roles, locks, output_is_ready,
                 physics_thread, spawned,
                 mode, begun, locals, alive, cycles, nswaps, uo, us_running>>

\* start: std::thread(&Simulator::asyncLoop, this) -- the new thread runs
StartSpawn(c) ==
  /\ alive
  /\ pc[c] = "st_spawn"
  /\ spawned' = NewThread
  /\ pc' = [pc EXCEPT ![c] = "st_assign", ![NewThread] = "check"]
  /\ UNCHANGED <<fx, stepped, sim, bufs, roles, locks, output_is_ready,
                 running, physics_thread,
                 mode, begun, locals, alive, cycles, nswaps, uo, us_running>>

\* start: physics_thread = <the new thread>; move assignment to a joinable
\* std::thread calls std::terminate()
StartAssign(c) ==
  /\ alive
  /\ pc[c] = "st_assign"
  /\ IF physics_thread # "none"
       THEN /\ alive' = FALSE
            /\ UNCHANGED <<physics_thread, mode>>
       ELSE /\ alive' = alive
            /\ physics_thread' = spawned
            /\ mode' = "Running"
  /\ spawned' = "none"
  /\ Goto(c, "idle")
  /\ UNCHANGED <<fx, stepped, sim, bufs, roles, locks, output_is_ready,
                 running, begun, locals,
                 cycles, nswaps, uo, us_running>>

\* stop: running = false
StopClearRunning(c) ==
  /\ alive
  /\ stepped' = FALSE
  /\ pc[c] = "idle"
  /\ running' = FALSE
  /\ begun' = 0
  /\ Goto(c, "sp_join")
  /\ UNCHANGED <<fx, sim, bufs, roles, locks, output_is_ready,
                 physics_thread, spawned,
                 mode, locals, alive, cycles, nswaps, uo, us_running>>

JoinAnyTime(th) == TRUE

\* join() returns once the thread's function has returned
JoinReady(th) == pc[th] = "done"

\* stop: physics_thread.join(); join() on a thread that is not joinable throws
StopJoin(c) ==
  /\ alive
  /\ pc[c] = "sp_join"
  /\ IF physics_thread = "none"
       THEN /\ alive' = FALSE
            /\ UNCHANGED <<physics_thread, mode>>
       ELSE /\ JoinReady(physics_thread)
            /\ alive' = alive
            /\ physics_thread' = "none"
            /\ mode' = "Idle"
  /\ Goto(c, "idle")
  /\ UNCHANGED <<fx, stepped, sim, bufs, roles, locks, output_is_ready,
                 running, spawned, begun,
                 locals, cycles, nswaps, uo, us_running>>

\* ------------------------------------------------------------ updateOutput
\* if (output_is_ready) ... else return false  -- read without output_mutex
UpdateOutputRead(c) ==
  /\ alive
  /\ stepped' = (stepped /\ output_is_ready)
  /\ pc[c] = "idle"
  /\ IF output_is_ready
       THEN /\ Goto(c, "uo_clear")
            /\ uo_entry' = nswaps
            /\ UNCHANGED <<uo_ret, uo_fresh>>
       ELSE /\ pc' = pc
            /\ uo_entry' = 0
            /\ uo_ret' = "false"
            /\ uo_fresh' = FALSE
  /\ UNCHANGED <<fx, sim, bufs, roles, locks, output_is_ready, ctl, locals,
                 alive,
                 cycles, nswaps, uo_base, us_running>>

\* output_is_ready = false  -- written without output_mutex
UpdateOutputClear(c) ==
  /\ alive
  /\ pc[c] = "uo_clear"
  /\ output_is_ready' = FALSE
  /\ Goto(c, "uo_swap")
  /\ UNCHANGED <<fx, stepped, sim, bufs, roles, locks, ctl, locals, alive,
                 cycles, nswaps, uo,
                 us_running>>

\* lock output_mutex; swap latest_output and read_output; return true
UpdateOutputSwap(c) ==
  /\ alive
  /\ stepped' = FALSE
  /\ pc[c] = "uo_swap"
  /\ output_mutex = "free"
  /\ SetRoles(SwapLatestRead(Roles))
  /\ uo_ret' = "true"
  /\ uo_fresh' = (nswaps > uo_base)
  /\ uo_base' = uo_entry
  /\ uo_entry' = 0
  /\ Goto(c, "idle")
  /\ UNCHANGED <<fx, sim, bufs, locks, output_is_ready, ctl, locals, alive,
                 cycles,
                 nswaps, us_running>>

\* ------------------------------------------------------ specifications
InCycle(t) == pc[t] \in {"physics", "particles", "swap", "mark"}
Mutators == {"main"}
Steppers == {"main", "aux"}
SpringIndices == 0..MaxParticles

\* the steps a thread takes once it is inside a member function
Continue ==
  \/ \E t \in Threads : CyclePhysics(t)
  \/ \E t \in Threads : CycleParticle(t)
  \/ \E t \in Threads : CycleSwap(t)
  \/ \E t \in Threads : CycleMark(t)
  \/ \E t \in Loops : LoopCheck(t)
  \/ \E c \in Mutators : AddParticleLockOutput(c)
  \/ \E c \in Mutators, p \in ParticleInputs : AddParticlePush(c, p)
  \/ \E c \in Mutators : AddParticleOutputs(c)
  \/ \E c \in Mutators : AddSpringLockOutput(c)
  \/ StartSpawn("main")
  \/ StartAssign("main")
  \/ StopJoin("main")

\* The callers keep to the documented use: one controlling thread that starts
\* an idle simulator, stops a running one and steps only an idle one; springs
\* between two distinct existing particles; one reader, which polls the
\* background loop from its own thread and, in synchronous mode, calls
\* updateOutput() between the updateState() calls, not during them
\* (test/call-for-update.cpp).
Next ==
  \/ Continue
  \/ \E c \in Mutators : AddParticleLockPhysics(c)
  \/ \E c \in Mutators : Len(particles) >= 2 /\ AddSpringLockPhysics(c)
  \/ \E c \in Mutators, s \in SpringInputs, p1, p2 \in SpringIndices :
       InRange(p1) /\ InRange(p2) /\ p1 # p2 /\ AddSpringBody(c, s, p1, p2)
  \/ mode = "Idle" /\ StartSetRunning("main")
  \/ mode = "Running" /\ StopClearRunning("main")
  \/ \E d \in DtValues :
       mode = "Idle" /\ pc["reader"] = "idle" /\ UpdateStateCheck("main", d)
  \/ ~InCycle("main") /\ UpdateOutputRead("reader")
  \/ UpdateOutputClear("reader")
  \/ UpdateOutputSwap("reader")

Spec == Init /\ [][Next]_vars

\* Any call at any time: start() and stop() in any state, updateState() from
\* the controlling thread or a second one, addSpring with any indices.  No
\* reader: the specification is about the calls that change the simulation.
NextMisuse ==
  \/ Continue
  \/ \E c \in Mutators : AddParticleLockPhysics(c)
  \/ \E c \in Mutators : AddSpringLockPhysics(c)
  \/ \E c \in Mutators, s \in SpringInputs, p1, p2 \in SpringIndices :
       AddSpringBody(c, s, p1, p2)
  \/ StartSetRunning("main")
  \/ StopClearRunning("main")
  \/ \E c \in Steppers, d \in DtValues : UpdateStateCheck(c, d)

SpecMisuse == Init /\ [][NextMisuse]_vars

\* test/async.cpp: the particles are added, then the simulator is started,
\* polled and stopped.  The loop runs for as long as its condition holds; the
\* particles are the immovable ones, so that positions stay bounded.
FixedParticles == {p \in ParticleInputs : p.invMass = 0}

NextLive ==
  \/ \E t \in Loops : CyclePhysics(t)
  \/ \E t \in Loops : CycleParticle(t)
  \/ \E t \in Loops : CycleSwap(t)
  \/ \E t \in Loops : CycleMark(t)
  \/ \E t \in Loops : LoopIterate(t)
  \/ Unspawned = 1..MaxLoops /\ AddParticleLockPhysics("main")
  \/ AddParticleLockOutput("main")
  \/ \E p \in FixedParticles : AddParticlePush("main", p)
  \/ AddParticleOutputs("main")
  \/ mode = "Idle" /\ StartSetRunning("main")
  \/ StartSpawn("main")
  \/ StartAssign("main")
  \/ mode = "Running" /\ StopClearRunning("main")
  \/ StopJoin("main")
  \/ UpdateOutputRead("reader")
  \/ UpdateOutputClear("reader")
  \/ UpdateOutputSwap("reader")

\* Fair scheduling: a thread that can take its next step takes it; a thread
\* waiting in lock() gets the mutex if it is released again and again.
FairLive ==
  /\ \A t \in Loops :
       /\ WF_vars(CyclePhysics(t))
       /\ WF_vars(CycleParticle(t))
       /\ WF_vars(CycleSwap(t))
       /\ WF_vars(CycleMark(t))
       /\ WF_vars(LoopIterate(t))
  /\ WF_vars(StartSpawn("main"))
  /\ WF_vars(StartAssign("main"))
  /\ WF_vars(StopJoin("main"))
  /\ WF_vars(UpdateOutputRead("reader"))
  /\ WF_vars(UpdateOutputClear("reader"))
  /\ SF_vars(UpdateOutputSwap("reader"))

SpecLive == Init /\ [][NextLive]_vars /\ FairLive

\* stop() with other threads at work: the controlling thread starts the
\* simulator once and stops it, a second thread calls addParticle and
\* addSpring at any time, the reader polls; the loop makes at most MaxCycles
\* cycles before stop() is called.
NextStop ==
  \/ \E t \in Loops : CyclePhysics(t)
  \/ \E t \in Loops : CycleParticle(t)
  \/ \E t \in Loops : CycleSwap(t)
  \/ \E t \in Loops : CycleMark(t)
  \/ \E t \in Loops : LoopCheck(t)
  \/ AddParticleLockPhysics("aux")
  \/ AddParticleLockOutput("aux")
  \/ \E p \in FixedParticles : AddParticlePush("aux", p)
  \/ AddParticleOutputs("aux")
  \/ Len(particles) >= 2 /\ AddSpringLockPhysics("aux")
  \/ AddSpringLockOutput("aux")
  \/ \E s \in SpringInputs, p1, p2 \in SpringIndices :
       InRange(p1) /\ InRange(p2) /\ p1 # p2 /\ AddSpringBody("aux", s, p1, p2)
  \/ mode = "Idle" /\ Unspawned = 1..MaxLoops /\ StartSetRunning("main")
  \/ StartSpawn("main")
  \/ StartAssign("main")
  \/ mode = "Running" /\ StopClearRunning("main")
  \/ StopJoin("main")
  \/ UpdateOutputRead("reader")
  \/ UpdateOutputClear("reader")
  \/ UpdateOutputSwap("reader")

\* Fair scheduling: a thread inside a call takes its next step, so every call
\* releases the locks it took; a loop waiting in lock() gets the mutex if it
\* is released again and again.
FairStop ==
  /\ \A t \in Loops :
       /\ SF_vars(CyclePhysics(t))
       /\ WF_vars(CycleParticle(t))
       /\ SF_vars(CycleSwap(t))
       /\ WF_vars(CycleMark(t))
       /\ WF_vars(LoopCheck(t))
  /\ WF_vars(AddParticleLockOutput("aux"))
  /\ WF_vars(\E p \in FixedParticles : AddParticlePush("aux", p))
  /\ WF_vars(AddParticleOutputs("aux"))
  /\ WF_vars(AddSpringLockOutput("aux"))
  /\ WF_vars(\E s \in SpringInputs, p1, p2 \in SpringIndices :
               InRange(p1) /\ InRange(p2) /\ p1 # p2 /\ AddSpringBody("aux", s, p1, p2))
  /\ WF_vars(StartSpawn("main"))
  /\ WF_vars(StartAssign("main"))
  /\ WF_vars(StopJoin("main"))

SpecStop == Init /\ [][NextStop]_vars /\ FairStop

\* ------------------------------------------------------------------ claims
ReadBuffer == bufs[read_output]
LiveLoops == {t \in Loops : pc[t] \notin {"unspawned", "done"}}

\* C1: updateOutput() returns true only if an integration cycle completed its
\* write/latest swap since the previous updateOutput() call that returned true
\* (counted, in the claim's favour, from the moment that call was entered).
C1_TrueOnlyAfterNewCycle == uo_ret = "true" => uo_fresh

\* C2, as stated: once updateOutput() has returned true, every slot of the
\* buffer getOutput() returns was written by one and the same cycle.
C2_EverySlotFromOneCycle ==
  uo_ret = "true" =>
    \E k \in 1..MaxCycles : \A i \in DOMAIN ReadBuffer : ReadBuffer[i].cyc = k

\* C2, amended: the slots of the buffer getOutput() returns that a cycle has
\* written form a prefix written by one and the same cycle; the slots after
\* it are the default-constructed ones addParticle appended since that cycle.
C2_NoTornRead ==
  \A i, j \in DOMAIN ReadBuffer :
    /\ (ReadBuffer[i].cyc # 0 /\ ReadBuffer[j].cyc # 0)
         => ReadBuffer[i].cyc = ReadBuffer[j].cyc
    /\ (i < j /\ ReadBuffer[i].cyc = 0) => ReadBuffer[j].cyc = 0
    /\ ReadBuffer[i].cyc = 0 => ReadBuffer[i] = OutputParticle

C2_Witness ==
  /\ uo_ret = "true"
  /\ mode = "Running"
  /\ Len(ReadBuffer) = 2
  /\ ReadBuffer[1].cyc = 2
  /\ ReadBuffer[2].cyc = 2

\* C3: once updateOutput() has handed the reader a frame, and between its
\* calls, nothing writes to or resizes the buffer getOutput() returns, and
\* only updateOutput() changes which buffer that is.
C3_ReadBufferUntouched ==
  [][uo_ret = "true" =>
       /\ read_output' # read_output => pc["reader"] = "uo_swap"
       /\ bufs'[read_output] = bufs[read_output]]_vars

\* C4: write, latest and read always designate three pairwise distinct
\* buffers, and a role change exchanges two role pointers and leaves the
\* contents of every buffer as they are.
RolesExchanged ==
  roles' # roles =>
    /\ bufs' = bufs
    /\ \/ roles' = <<latest_output, write_output, read_output>>
       \/ roles' = <<write_output, read_output, latest_output>>
       \/ roles' = <<read_output, latest_output, write_output>>

C4_RolesArePermutation ==
  /\ []({write_output, latest_output, read_output} = BufIds)
  /\ [][RolesExchanged]_vars

C4_Witness ==
  /\ read_output = 1
  /\ write_output = 2
  /\ latest_output = 3

\* C5: outside an addParticle call in progress, each of the three buffers has
\* as many slots as there are particles.
C5_LengthsInSync ==
  (\A c \in Callers : pc[c] \notin {"ap_lockO", "ap_push", "ap_bufs"})
    => \A b \in BufIds : Len(bufs[b]) = Len(particles)

C5_Witness ==
  /\ Len(particles) = 2
  /\ Len(ReadBuffer) = 2
  /\ ReadBuffer[1].cyc = 1
  /\ ReadBuffer[2].cyc = 0
  /\ pc["main"] = "idle"

\* C6, as stated: no thread ever holds physics_mutex and output_mutex at once.
C6_NeverBothLocks ==
  \A t \in Threads : ~(physics_mutex = t /\ output_mutex = t)

\* C6, amended: a thread holds both locks only inside addParticle or addSpring,
\* where it took physics_mutex first; an integration cycle and updateOutput()
\* never hold the two at once.
C6_BothLocksOnlyInAdd ==
  \A t \in Threads :
    /\ (physics_mutex = t /\ output_mutex = t)
         => pc[t] \in {"ap_push", "ap_bufs", "as_body"}
    /\ (output_mutex = t /\ pc[t] \in {"ap_lockO", "ap_push", "ap_bufs", "as_lockO", "as_body"})
         => physics_mutex = t
    /\ InCycle(t) => ~(physics_mutex = t /\ output_mutex = t)

C6_Witness ==
  \E t \in Loops :
    /\ output_mutex = t
    /\ physics_mutex = "main"
    /\ pc["main"] = "ap_lockO"

\* C7: once stop() has returned, and until start() is called again, the
\* background loop has exited: no loop thread is anywhere in asyncLoop.
C7_StoppedMeansLoopExited ==
  (mode = "Idle" /\ pc["main"] \notin {"st_spawn", "st_assign"}) => LiveLoops = {}

C7_Witness ==
  /\ mode = "Idle"
  /\ pc["main"] = "idle"
  /\ pc["loop1"] = "done"
  /\ nswaps >= 2

\* C8: a background cycle, once begun, goes through its steps in order up to
\* the ready mark whatever happens to the running flag, and after the flag has
\* been cleared at most one further cycle begins.
CycleRunsOn(t) ==
  /\ pc[t] = "physics" => pc'[t] \in {"physics", "particles"}
  /\ pc[t] = "particles" => pc'[t] \in {"particles", "swap"}
  /\ pc[t] = "swap" => pc'[t] \in {"swap", "mark"}
  /\ pc[t] = "mark" => \/ pc'[t] = "mark"
                       \/ pc'[t] = "check" /\ output_is_ready'
  /\ pc'[t] = "done" => pc[t] \in {"check", "done"}

C8_StopTakesEffectBetweenCycles ==
  /\ [][\A t \in Loops : CycleRunsOn(t)]_vars
  /\ [](begun <= 1)

C8_Witness ==
  \E t \in Loops :
    /\ ~running
    /\ begun = 1
    /\ pc[t] = "mark"

\* C9: updateState() called while the simulator is Running (start() has
\* returned, stop() has not) performs no part of an integration cycle: it
\* updates no spring, integrates no particle, writes and swaps no buffer.
C9_NoStepWhileRunning ==
  \A c \in Steppers : pc[c] \in {"particles", "swap", "mark"} => ~us_running[c]

\* C10: start() on a running simulator launches no second background loop:
\* at no time are two loop threads executing integration cycles.
C10_AtMostOneLoop ==
  Cardinality({t \in Loops : pc[t] \in {"particles", "swap", "mark"}}) <= 1

\* C11: a manual updateState() cycle and a background-loop cycle are never
\* both between the start of their physics step and the completion of their
\* write/latest swap, also when updateState() and start() are called
\* concurrently from different threads.
C11_NeverBothStepping ==
  \A c \in Steppers, t \in Loops :
    ~(pc[c] \in {"particles", "swap"} /\ pc[t] \in {"particles", "swap"})

\* C12: in every integration cycle (manual or background) the steps occur in
\* this order: physics_mutex is acquired; every spring is updated before any
\* particle is integrated; each particle is integrated and its position is
\* copied into the write buffer at the particle's own index; physics_mutex is
\* released; only then output_mutex is acquired, write and latest are
\* exchanged and output_is_ready is set.
CycleStepOrder(t) ==
  /\ (pc[t] = "physics" /\ pc'[t] = "particles") =>
        /\ physics_mutex = "free" /\ physics_mutex' = t
        /\ idx'[t] = 0
        /\ \E rnd \in RandomUnits :
             <<particles', springs'>> = SpringsUpdate(particles, springs, 1, rnd)
  /\ pc[t] = "particles" =>
        /\ idx'[t] # idx[t] =>
             /\ idx'[t] = idx[t] + 1
             /\ UNCHANGED <<springs, write_output, latest_output, output_is_ready>>
             /\ physics_mutex' = t
             /\ particles'[idx'[t]] = ParticleUpdate(particles[idx'[t]], dt[t])
             /\ bufs'[write_output][idx'[t]].pos = particles'[idx'[t]].pos
             /\ \A i \in DOMAIN particles : i # idx'[t] => particles'[i] = particles[i]
        /\ pc'[t] = "swap" =>
             /\ idx[t] = Len(particles) /\ physics_mutex' = "free"
             /\ UNCHANGED <<particles, springs, bufs, write_output,
                            latest_output, output_is_ready>>
  /\ (pc[t] = "swap" /\ pc'[t] = "mark") =>
        /\ output_mutex = "free" /\ output_mutex' = t
        /\ write_output' = latest_output /\ latest_output' = write_output
        /\ UNCHANGED <<particles, springs, output_is_ready>>
  /\ (pc[t] = "mark" /\ pc'[t] # "mark") =>
        /\ output_is_ready' /\ output_mutex' = "free"
        /\ UNCHANGED <<particles, springs, write_output, latest_output>>

CycleLocksHeld(t) ==
  /\ pc[t] = "particles" => physics_mutex = t /\ output_mutex # t
  /\ pc[t] = "swap" => physics_mutex # t /\ output_mutex # t
  /\ pc[t] = "mark" => physics_mutex # t /\ output_mutex = t

C12_CycleStepsInOrder ==
  /\ [](\A t \in Threads : CycleLocksHeld(t))
  /\ [][\A t \in Threads : CycleStepOrder(t)]_vars

C12_Witness ==
  \E t \in Loops :
    /\ pc[t] = "mark"
    /\ Len(springs) = 1
    /\ Len(particles) = 2
    /\ bufs[latest_output][2].cyc = stamp[t]
    /\ bufs[latest_output][2].pos = particles[2].pos

\* C13: in synchronous mode an updateOutput() made immediately after an
\* updateState(dt) returns true, and getOutput() then holds, at every particle
\* index i, the position particle i has after that updateState call.
UpdateOutputReturns(c) ==
  \/ pc[c] = "uo_swap" /\ pc'[c] = "idle"
  \/ pc[c] = "idle" /\ pc' = pc /\ alive' = alive /\ stepped /\ ~stepped'

C13_StepThenPublish ==
  [][\A c \in Callers :
       (stepped /\ UpdateOutputReturns(c)) =>
          /\ uo_ret' = "true"
          /\ Len(bufs'[read_output']) = Len(particles)
          /\ \A i \in DOMAIN particles :
               bufs'[read_output'][i].pos = particles[i].pos]_vars

C13_Witness ==
  /\ uo_ret = "true"
  /\ physics_thread = "none"
  /\ \A c \in Callers : pc[c] = "idle"
  /\ cycles = 2
  /\ Len(particles) = 2
  /\ \A i \in DOMAIN particles :
       ReadBuffer[i].cyc = cycles /\ ReadBuffer[i].pos = particles[i].pos
  /\ \E i \in DOMAIN particles : particles[i].pos # 0 /\ particles[i].vel # 0

\* C14: while the background loop is running, a reader that keeps polling
\* updateOutput() receives true again and again under fair scheduling, and a
\* stop() called after the frames have been received returns.
C14_FramesKeepArriving ==
  /\ \/ []<>(mode # "Running")
     \/ []<><<UpdateOutputSwap("reader")>>_vars
  /\ (pc["main"] = "sp_join") ~> (mode = "Idle")

C14_Witness ==
  /\ mode = "Running"
  /\ uo_ret = "true"
  /\ pc["reader"] = "idle"
  /\ nswaps = MaxCycles
  /\ Len(ReadBuffer) > 0
  /\ \A i \in DOMAIN ReadBuffer : ReadBuffer[i].cyc = MaxCycles

ForceValues == (-MaxForce)..MaxForce

\* the caller adds f to the public accumulator F
ApplyForce(p, f) == [p EXCEPT !.F = @ + f]

InitParticle ==
  /\ SimInit
  /\ fx \in {[kind |-> "particle", x |-> Particle(0, 0, m), y |-> Particle(0, 0, m),
              force |-> <<f1, f2>>, n |-> 0] :
               m \in {0, 1}, f1 \in ForceValues, f2 \in ForceValues}

ParticleStep ==
  /\ fx.kind = "particle"
  /\ fx.n < MaxSteps
  /\ fx' = [fx EXCEPT !.x = ParticleUpdate(ApplyForce(@, fx.force[1]), 1),
                      !.y = ParticleUpdate(ApplyForce(@, fx.force[2]), 1),
                      !.n = @ + 1]
  /\ UNCHANGED simvars

SpecParticle == InitParticle /\ [][ParticleStep]_vars

GravityCase ==
  /\ fx.kind = "particle"
  /\ fx.x.mass = 1
  /\ fx.force = <<0, -1>>
  /\ fx.n = 10

\* C16, as stated: mass 1, at rest at (0,0), force (0,-1) before each of 10
\* update(0.1) calls: y after the 10th step lies between -0.5 and -0.45, and
\* x stays 0.
C16_YWithinStatedRange ==
  GravityCase => fx.x.pos = 0 /\ fx.y.pos >= -50 /\ fx.y.pos <= -45

\* C16, amended: the velocity is updated before the position, so after n
\* steps the position is force * dt^2 * n(n+1)/2; after the 10th step y is
\* -0.55 and x is 0.
C16_YAfterTenSteps ==
  /\ GravityCase => fx.x.pos = 0 /\ fx.y.pos = -55
  /\ (fx.kind = "particle" /\ fx.x.mass = 1) =>
        /\ fx.x.pos = fx.force[1] * ((fx.n * (fx.n + 1)) \div 2)
        /\ fx.y.pos = fx.force[2] * ((fx.n * (fx.n + 1)) \div 2)
        /\ fx.y.vel = fx.force[2] * fx.n

C16_Witness == GravityCase /\ fx.y.pos = -55 /\ fx.y.vel = -10 /\ fx.y.F = 0

\* --------------------------------------------- a spring and its endpoints
\* Two endpoint particles and a third particle that the spring does not
\* reference; a spring given by its fields.  One round is Spring::update
\* followed by Particle::update on every particle, as in a cycle.
ForcePairs ==
  {<<"SPRING", "SPRING">>, <<"CONSTANT", "CONSTANT">>, <<"STRONG", "STRONG">>,
   <<"NO_FORCE", "SPRING">>, <<"SPRING", "STRONG">>, <<"CONSTANT", "NO_FORCE">>}

\* deformation coefficients 0, 1/2 and 1
Coefficients == {<<0, 1>>, <<1, 2>>, <<1, 1>>}

SpringFields(types, natural_length, strength, deformation) ==
  [p1 |-> 0, p2 |-> 1, natural_length |-> natural_length,
   compression_force_strength |-> strength,
   tension_force_strength |-> strength,
   compression_force_type |-> types[1], tension_force_type |-> types[2],
   deformation_coefficient |-> deformation]

Bystander == Particle(6, 2, 1)

InitSpring ==
  /\ SimInit
  /\ \E pos2 \in {-2, 0, 2, 4}, vel1 \in {0, 2}, vel2 \in {-2, 0},
        m1 \in {0, 1}, m2 \in {0, 1}, f1 \in {0, 2},
        types \in ForcePairs, strength \in {1, 2}, deformation \in Coefficients :
       LET ps == <<ApplyForce(Particle(0, vel1, m1), f1), Particle(pos2, vel2, m2),
                   Bystander>>
           s == SpringFields(types, 2, strength, deformation)
       IN fx = [kind |-> "spring", ps |-> ps, s |-> s, ps0 |-> ps, s0 |-> s,
                before |-> ps, sbefore |-> s, phase |-> "ready", n |-> 0]

SpringStep ==
  /\ fx.kind = "spring"
  /\ fx.phase = "ready"
  /\ fx.n < MaxRounds
  /\ \E rnd \in RandomUnits :
       LET r == SpringUpdate(fx.ps, fx.s, rnd)
       IN fx' = [fx EXCEPT !.ps = r[1], !.s = r[2], !.before = fx.ps,
                           !.sbefore = fx.s, !.phase = "sprung"]
  /\ UNCHANGED simvars

ParticlesStep ==
  /\ fx.kind = "spring"
  /\ fx.phase = "sprung"
  /\ \E d \in 1..2 :
       fx' = [fx EXCEPT !.ps = [i \in DOMAIN fx.ps |-> ParticleUpdate(fx.ps[i], d)],
                        !.phase = "ready", !.n = @ + 1]
  /\ UNCHANGED simvars

NextSpring == SpringStep \/ ParticlesStep

SpecSpring == InitSpring /\ [][NextSpring]_vars

EndpointDistance(ps) == Abs(ps[2].pos - ps[1].pos)

\* C17: two finite-mass particles joined by a STRONG connection of strength
\* 1: one Spring::update followed by Particle::update brings their distance
\* to natural_length and their relative velocity along the axis to zero,
\* for every dt.
C17_RigidRestoresLength ==
  ( /\ fx.kind = "spring"
    /\ fx.phase = "ready"
    /\ fx.n = 1
    /\ fx.s0.compression_force_type = "STRONG"
    /\ fx.s0.tension_force_type = "STRONG"
    /\ fx.s0.tension_force_strength = 1
    /\ fx.ps0[1].invMass > 0 /\ fx.ps0[2].invMass > 0
    /\ fx.ps0[1].F = 0 /\ fx.ps0[2].F = 0 ) =>
      /\ EndpointDistance(fx.ps) = fx.s.natural_length
      /\ fx.ps[1].vel = fx.ps[2].vel

ChangeOf(i, f) == fx.ps[i][f] - fx.before[i][f]

\* C18: a SPRING, CONSTANT or STRONG update changes particle 1's accumulated
\* force and queued position/velocity corrections by the exact negation of
\* the change it makes to particle 2's, and modifies nothing else: not the
\* endpoints' positions, velocities or masses, and no other particle.
C18_EqualAndOpposite ==
  (fx.kind = "spring" /\ fx.phase = "sprung") =>
    /\ \A f \in {"F", "m_delta_pos", "m_delta_vel", "m_delta_pos_hard",
                  "m_delta_vel_hard"} : ChangeOf(1, f) = -ChangeOf(2, f)
    /\ \A i \in {1, 2}, f \in {"pos", "vel", "mass", "invMass"} : ChangeOf(i, f) = 0
    /\ fx.ps[3] = fx.before[3]

C18_Witness ==
  /\ fx.kind = "spring"
  /\ fx.phase = "sprung"
  /\ fx.s0.tension_force_type = "STRONG"
  /\ ChangeOf(1, "m_delta_pos") # 0
  /\ ChangeOf(1, "m_delta_vel") # 0
  /\ ChangeOf(1, "F") # 0

AtRestAtNaturalLength ==
  /\ fx.kind = "spring"
  /\ fx.s0.compression_force_type = "SPRING"
  /\ fx.s0.tension_force_type = "SPRING"
  /\ fx.ps0[2].pos - fx.ps0[1].pos \in {fx.s0.natural_length, -fx.s0.natural_length}
  /\ \A i \in {1, 2} : fx.ps0[i].vel = 0 /\ fx.ps0[i].F = 0

\* C19: two particles joined by a SPRING connection, at rest and exactly
\* natural_length apart, with no other force acting, keep their positions and
\* zero velocities after any number of cycles, and natural_length is unchanged.
C19_EquilibriumIsKept ==
  AtRestAtNaturalLength =>
    /\ \A i \in {1, 2} : fx.ps[i].pos = fx.ps0[i].pos /\ fx.ps[i].vel = 0
    /\ fx.s.natural_length = fx.s0.natural_length

C19_Witness ==
  /\ AtRestAtNaturalLength
  /\ fx.n = MaxRounds
  /\ fx.ps0[1].invMass > 0 /\ fx.ps0[2].invMass > 0
  /\ fx.ps0[2].pos < fx.ps0[1].pos
  /\ fx.s0.deformation_coefficient = <<1, 1>>

\* ------------------------------------------------------ object collision
\* An Object is its particle_refs (indices into the particle list) and its
\* surfaces; a surface of a one-dimensional object is given by its normal.
Object(particle_refs, surfaces) ==
  [particle_refs |-> particle_refs, surfaces |-> surfaces]

\* Surface::getNormal(particles): the normal of the face
GetNormal(surface) == surface

\* projection_scalar(v1, v2) = dot(v1, v2) / magnitude(v2)
ProjectionScalar(v1, v2) == (v1 * v2) \div Abs(v2)

Fmin(x, y) == IF x < y THEN x ELSE y
Fmax(x, y) == IF x > y THEN x ELSE y

\* the loops over an object's vertices that find minproj and maxproj
RECURSIVE MinProj(_, _, _, _, _)
MinProj(ps, refs, axis, i, acc) ==
  IF i > Len(refs) THEN acc
  ELSE MinProj(ps, refs, axis, i + 1, Fmin(acc, ProjectionScalar(ps[refs[i]].pos, axis)))

RECURSIVE MaxProj(_, _, _, _, _)
MaxProj(ps, refs, axis, i, acc) ==
  IF i > Len(refs) THEN acc
  ELSE MaxProj(ps, refs, axis, i + 1, Fmax(acc, ProjectionScalar(ps[refs[i]].pos, axis)))

\* for (axis_src_obj : {obj1, obj2}) for (surface : axis_src_obj.surfaces)
AxisSources(obj1, obj2) == obj1.surfaces \o obj2.surfaces

\* detectObjectCollision from the i-th tested surface on: the value returned,
\* the intersection handed back and the local minaxis
RECURSIVE DetectFrom(_, _, _, _, _, _)
DetectFrom(ps, obj1, obj2, i, intersection, minaxis) ==
  IF i > Len(AxisSources(obj1, obj2))
    THEN [hit |-> TRUE, intersection |-> intersection, minaxis |-> minaxis]
    ELSE
      LET axis == Unit(GetNormal(AxisSources(obj1, obj2)[i]), 1)
          first1 == ProjectionScalar(ps[obj1.particle_refs[1]].pos, axis)
          first2 == ProjectionScalar(ps[obj2.particle_refs[1]].pos, axis)
          minproj1 == MinProj(ps, obj1.particle_refs, axis, 1, first1)
          maxproj1 == MaxProj(ps, obj1.particle_refs, axis, 1, first1)
          minproj2 == MinProj(ps, obj2.particle_refs, axis, 1, first2)
          maxproj2 == MaxProj(ps, obj2.particle_refs, axis, 1, first2)
          diff1 == maxproj1 - minproj2
          diff2 == maxproj2 - minproj2
          tempintersection == IF diff1 < diff2 THEN diff1 ELSE -diff2
          smaller == tempintersection < intersection \/ intersection < 0
      IN IF diff1 < 0 \/ diff2 < 0
           THEN [hit |-> FALSE, intersection |-> intersection, minaxis |-> minaxis]
           ELSE DetectFrom(ps, obj1, obj2, i + 1,
                           IF smaller THEN tempintersection ELSE intersection,
                           IF smaller THEN axis ELSE minaxis)

\* detectObjectCollision(particles, obj1, obj2, ...): intersection = -1, then
\* the loops; minaxis starts unassigned
DetectObjectCollision(ps, obj1, obj2) == DetectFrom(ps, obj1, obj2, 1, -1, 0)

\* a detectObjectCollision that copies minaxis out to the caller
AxisWritten(caller_axis, r) == r.minaxis

\* the caller's axisOfMinimumIntersection after detectObjectCollision: the
\* function has no assignment to it, so the caller keeps what it passed in
AxisHandedBack(caller_axis, r) == caller_axis

\* for (p : refs) particles[p].m_delta_pos += delta
PushMembers(ps, refs, delta) ==
  [i \in DOMAIN ps |->
     IF \E k \in DOMAIN refs : refs[k] = i
       THEN [ps[i] EXCEPT !.m_delta_pos = @ + delta]
       ELSE ps[i]]

\* resolveObjectCollision(particles, obj1, obj2): axis is a default Tuple
\* (zero) that only detectObjectCollision could assign; displacement is the
\* factor of the statement displacement1 = axis * (displacement); both
\* objects are moved by displacement1, displacement_ratio and displacement2
\* are computed and not used
ResolveObjectCollision(ps, obj1, obj2, displacement) ==
  LET r == DetectObjectCollision(ps, obj1, obj2)
      axis == AxisHandedBack(0, r)
      displacement1 == axis * displacement
  IN IF r.hit /\ r.intersection # 0
       THEN PushMembers(PushMembers(ps, obj1.particle_refs, -displacement1),
                        obj2.particle_refs, displacement1)
       ELSE ps

RECURSIVE SumMass(_, _, _)
SumMass(ps, refs, i) ==
  IF i > Len(refs) THEN 0 ELSE ps[refs[i]].mass + SumMass(ps, refs, i + 1)

RECURSIVE SumInvMass(_, _, _)
SumInvMass(ps, refs, i) ==
  IF i > Len(refs) THEN 0 ELSE ps[refs[i]].invMass + SumInvMass(ps, refs, i + 1)

\* Object::computeMass(particles): massSum and invMassSum over particle_refs
ComputeMass(ps, obj) ==
  [massSum |-> SumMass(ps, obj.particle_refs, 1),
   invMassSum |-> SumInvMass(ps, obj.particle_refs, 1)]

RECURSIVE SumMassPos(_, _, _)
SumMassPos(ps, range, i) ==
  IF i > Len(range) THEN 0
  ELSE ps[range[i]].mass * ps[range[i]].pos + SumMassPos(ps, range, i + 1)

\* Object::centerOfMass(particles): out += mass * pos over the range of the
\* loop, then out * invMassSum
CenterOfMass(ps, range, sums) == SumMassPos(ps, range, 1) * sums.invMassSum

\* the loop of centerOfMass is written over the particle list and indexes it
\* with its own element; it is read as ranging over the object's members or
\* over the whole list
LoopRanges(ps, obj) == {obj.particle_refs, [i \in 1..Len(ps) |-> i]}

\* values that a double member nobody has assigned may hold
Unassigned == {0, 3}

Coords == 0..MaxCoord
Normals == {-1, 1}
ObjNames == {"obj1", "obj2"}

InitCollide ==
  /\ SimInit
  /\ \E a, b, c, d \in Coords, n1, n2 \in Normals, m \in {0, 1},
        u1, u2 \in Unassigned :
       LET ps == <<Particle(a, 0, 1), Particle(b, 0, m),
                   Particle(c, 0, 1), Particle(d, 0, 1)>>
       IN fx = [kind |-> "collide",
                ps |-> ps, ps0 |-> ps,
                obj1 |-> Object(<<1, 2>>, <<n1>>),
                obj2 |-> Object(<<3, 4>>, <<n2>>),
                sums |-> [obj1 |-> [massSum |-> u1, invMassSum |-> u1],
                          obj2 |-> [massSum |-> u2, invMassSum |-> u2]],
                massed |-> {},
                phase |-> "ready",
                result |-> [hit |-> FALSE, intersection |-> -1, minaxis |-> 0],
                axis |-> 0, com |-> 0, of |-> "obj1", n |-> 0]

Detect ==
  /\ fx.kind = "collide"
  /\ fx.phase = "ready"
  /\ \E caller_axis \in {-1, 0, 1} :
       LET r == DetectObjectCollision(fx.ps, fx.obj1, fx.obj2)
       IN fx' = [fx EXCEPT !.result = r,
                           !.axis = AxisHandedBack(caller_axis, r),
                           !.phase = "done"]
  /\ UNCHANGED simvars

ComputeMassCall(o) ==
  /\ fx.kind = "collide"
  /\ fx.phase = "ready"
  /\ o \notin fx.massed
  /\ fx' = [fx EXCEPT !.sums[o] = ComputeMass(fx.ps, fx[o]),
                      !.massed = @ \cup {o}]
  /\ UNCHANGED simvars

Resolve ==
  /\ fx.kind = "collide"
  /\ fx.phase \in {"ready", "resolved"}
  /\ fx.n < MaxCalls
  /\ \E displacement \in -MaxCoord..MaxCoord :
       fx' = [fx EXCEPT
                !.ps = ResolveObjectCollision(fx.ps, fx.obj1, fx.obj2, displacement),
                !.phase = "resolved", !.n = @ + 1]
  /\ UNCHANGED simvars

CenterOfMassCall(o) ==
  /\ fx.kind = "collide"
  /\ fx.phase = "ready"
  /\ \E range \in LoopRanges(fx.ps, fx[o]) :
       fx' = [fx EXCEPT !.com = CenterOfMass(fx.ps, range, fx.sums[o]),
                        !.of = o, !.phase = "com"]
  /\ UNCHANGED simvars

NextCollide ==
  \/ Detect
  \/ Resolve
  \/ \E o \in ObjNames : ComputeMassCall(o)
  \/ \E o \in ObjNames : CenterOfMassCall(o)

SpecCollide == InitCollide /\ [][NextCollide]_vars

Projections(obj, axis) ==
  {ProjectionScalar(fx.ps[obj.particle_refs[i]].pos, axis) : i \in DOMAIN obj.particle_refs}

Disjoint(A, B) ==
  \/ \A x \in A, y \in B : x < y
  \/ \A x \in A, y \in B : y < x

TestedAxes ==
  {Unit(GetNormal(AxisSources(fx.obj1, fx.obj2)[i]), 1) :
     i \in DOMAIN AxisSources(fx.obj1, fx.obj2)}

\* C20: detectObjectCollision returns false whenever, for at least one face
\* normal of either object, the two objects' projection intervals on that axis
\* are disjoint, whichever object lies ahead along the axis; it returns true
\* only when the intervals overlap on every tested axis.
C20_SeparatedMeansFalse ==
  (fx.kind = "collide" /\ fx.phase = "done") =>
    (fx.result.hit <=>
       \A axis \in TestedAxes :
         ~Disjoint(Projections(fx.obj1, axis), Projections(fx.obj2, axis)))

Separated ==
  \E axis \in TestedAxes :
    Disjoint(Projections(fx.obj1, axis), Projections(fx.obj2, axis))

Pushed(i) == fx.ps[i].m_delta_pos - fx.ps0[i].m_delta_pos

Members(obj) == {obj.particle_refs[k] : k \in DOMAIN obj.particle_refs}

\* C22: on a collision resolveObjectCollision pushes the members of object A
\* along the resolution axis by the share invMassA / (invMassA + invMassB) of
\* the penetration depth and the members of object B the opposite way by the
\* complementary share, so that the two shares add up to the whole depth.
C22_SharesOfPenetration ==
  LET r == DetectObjectCollision(fx.ps0, fx.obj1, fx.obj2)
      invA == fx.sums.obj1.invMassSum
      invB == fx.sums.obj2.invMassSum
      depth == Abs(r.intersection)
  IN ( /\ fx.kind = "collide"
       /\ fx.phase = "resolved"
       /\ fx.n = 1
       /\ fx.massed = ObjNames
       /\ r.hit /\ r.intersection # 0
       /\ invA + invB > 0 ) =>
         \E dir \in {-1, 1} :
           /\ \A i \in Members(fx.obj1) : Pushed(i) * (invA + invB) = dir * invA * depth
           /\ \A i \in Members(fx.obj2) : Pushed(i) * (invA + invB) = -dir * invB * depth

\* C23: Object::centerOfMass returns the mass-weighted average position of
\* the members, (sum of mass_i * pos_i) / (sum of mass_i), for every object
\* with at least one finite-mass member (after computeMass).
C23_CenterOfMassIsWeightedAverage ==
  ( /\ fx.kind = "collide"
    /\ fx.phase = "com"
    /\ fx.of \in fx.massed
    /\ SumMass(fx.ps, fx[fx.of].particle_refs, 1) > 0 ) =>
      fx.com * SumMass(fx.ps, fx[fx.of].particle_refs, 1)
        = SumMassPos(fx.ps, fx[fx.of].particle_refs, 1)

SetMin(S) == CHOOSE x \in S : \A y \in S : x <= y
SetMax(S) == CHOOSE x \in S : \A y \in S : x >= y

\* how far object 1 reaches past the start of object 2, and object 2 past the
\* start of object 1, along the axis
Reach12(axis) == SetMax(Projections(fx.obj1, axis)) - SetMin(Projections(fx.obj2, axis))
Reach21(axis) == SetMax(Projections(fx.obj2, axis)) - SetMin(Projections(fx.obj1, axis))
Overlap(axis) == Fmin(Reach12(axis), Reach21(axis))

\* C25: when detectObjectCollision returns true, the axis and the amount it
\* hands back are those of the tested face normal with the smallest overlap
\* among all tested axes, and the sign of the amount tells which object is
\* ahead along that axis.
C25_SmallestOverlapHandedBack ==
  (fx.kind = "collide" /\ fx.phase = "done" /\ fx.result.hit) =>
    \E axis \in TestedAxes :
      /\ \A other \in TestedAxes : Overlap(axis) <= Overlap(other)
      /\ fx.axis = axis
      /\ Abs(fx.result.intersection) = Overlap(axis)
      /\ fx.result.intersection > 0 => Reach12(axis) <= Reach21(axis)
      /\ fx.result.intersection < 0 => Reach21(axis) <= Reach12(axis)

\* the law and the strength of the regime that the natural length nl selects
\* at the distance of the update just made
RegimeType(nl) ==
  IF EndpointDistance(fx.before) < nl
    THEN fx.sbefore.compression_force_type
    ELSE fx.sbefore.tension_force_type

RegimeStrength(nl) ==
  IF EndpointDistance(fx.before) < nl
    THEN fx.sbefore.compression_force_strength
    ELSE fx.sbefore.tension_force_strength

\* C24: on every Spring::update with distance # natural_length and a
\* coefficient in [0, 1], the new natural_length lies between the old one and
\* the distance (inclusive): |distance - natural_length| does not grow and
\* natural_length does not pass the distance; with coefficient 0 it is
\* unchanged; and the regime is the one that the updated natural_length
\* selects.
C24_NaturalLengthMovesTowardDistance ==
  LET d == EndpointDistance(fx.before)
      nl0 == fx.sbefore.natural_length
      nl1 == fx.s.natural_length
  IN (fx.kind = "spring" /\ fx.phase = "sprung" /\ d # nl0) =>
       /\ Fmin(nl0, d) <= nl1 /\ nl1 <= Fmax(nl0, d)
       /\ Abs(d - nl1) <= Abs(d - nl0)
       /\ fx.sbefore.deformation_coefficient = <<0, 1>> => nl1 = nl0
       /\ RegimeType(nl1) = "NO_FORCE" => fx.ps = fx.before
       /\ RegimeType(nl1) = "SPRING" =>
            Abs(ChangeOf(1, "F")) = RegimeStrength(nl1) * Abs(d - nl1)
       /\ RegimeType(nl1) = "CONSTANT" =>
            Abs(ChangeOf(1, "F")) = RegimeStrength(nl1)

\* a compressed spring of coefficient 1/2 whose natural length has moved
\* strictly inside the interval and whose compression law has pushed
C24_Witness ==
  /\ fx.kind = "spring"
  /\ fx.phase = "sprung"
  /\ fx.sbefore.deformation_coefficient = <<1, 2>>
  /\ EndpointDistance(fx.before) < fx.s.natural_length
  /\ fx.s.natural_length < fx.sbefore.natural_length
  /\ RegimeType(fx.s.natural_length) = "CONSTANT"
  /\ ChangeOf(1, "F") # 0

\* C30: a spring with deformation_coefficient 1 offers no resistance: for
\* every force type and every distance, Spring::update sets natural_length to
\* the current distance and adds zero force and zero position/velocity
\* correction to both endpoints.
C30_FullyPlasticSpringIsInert ==
  ( /\ fx.kind = "spring"
    /\ fx.phase = "sprung"
    /\ fx.sbefore.deformation_coefficient = <<1, 1>> ) =>
      /\ fx.s.natural_length = EndpointDistance(fx.before)
      /\ fx.ps = fx.before

\* the integration cycle whose data a buffer holds: the stamp of its written
\* slots (one and the same by C2), 0 for a buffer no cycle has written
FrameCycle(b) ==
  IF \E i \in DOMAIN bufs[b] : bufs[b][i].cyc # 0
    THEN bufs[b][CHOOSE i \in DOMAIN bufs[b] : bufs[b][i].cyc # 0].cyc
    ELSE 0

\* C26: published frames never go backwards: the cycle whose data getOutput()
\* exposes after an updateOutput() that returns true is strictly newer than
\* the cycle exposed after the previous updateOutput() that returned true.
\* (The read role changes only in updateOutput(), so the frame exposed before
\* the change is the one the previous true return published.)
C26_FramesNeverGoBackwards ==
  [][(read_output' # read_output /\ FrameCycle(read_output) > 0) =>
       FrameCycle(read_output)' > FrameCycle(read_output)]_vars

\* a thread that has called lock() on a mutex another thread holds
Blocked(t) ==
  \/ pc[t] = "physics" /\ physics_mutex # "free"
  \/ pc[t] \in {"swap", "ap_lockO", "as_lockO", "uo_swap"} /\ output_mutex # "free"

\* C27: the locking protocol is deadlock-free: with a background loop, a
\* polling reader and a thread calling addParticle/addSpring, in no reachable
\* state are all the threads that hold or want a mutex blocked.  The holder of
\* output_mutex waits for no mutex, the holder of physics_mutex waits at most
\* for output_mutex (the order is always physics_mutex, then output_mutex),
\* and a cycle does not hold physics_mutex while it waits for output_mutex.
C27_NoDeadlock ==
  alive =>
    /\ output_mutex # "free" =>
         pc[output_mutex] \in {"mark", "ap_push", "ap_bufs", "as_body"}
    /\ physics_mutex # "free" =>
         pc[physics_mutex] \in {"particles", "ap_lockO", "ap_push", "ap_bufs",
                                "as_lockO", "as_body"}
    /\ \A t \in Threads : pc[t] = "swap" => physics_mutex # t
    /\ (\E t \in Threads : Blocked(t)) =>
         \E h \in Threads : (physics_mutex = h \/ output_mutex = h) /\ ~Blocked(h)

\* addParticle holds physics_mutex and waits for output_mutex, which a loop
\* finishing its cycle holds; the reader waits for output_mutex too
C27_Witness ==
  /\ alive
  /\ pc["main"] = "ap_lockO"
  /\ physics_mutex = "main"
  /\ \E t \in Loops : output_mutex = t /\ pc[t] = "mark"
  /\ pc["reader"] = "uo_swap"
  /\ Blocked("main") /\ Blocked("reader")

\* C29: an addSpring that fails (an endpoint index out of range) leaves the
\* simulator unchanged: the spring list has the length and the contents it
\* had before the call.  (Stated for a simulator without particles, where
\* every index is out of range.)
C29_FailedAddSpringChangesNothing ==
  [][(alive /\ ~alive' /\ Len(particles) = 0 /\ \E c \in Callers : pc[c] = "as_body")
       => springs' = springs]_vars

\* C28: a stop() call on a Running simulator eventually returns: under fair
\* scheduling, with other threads only calling addParticle, addSpring and
\* updateOutput, the background loop sees the cleared flag and exits and the
\* join completes.
C28_StopReturns ==
  (pc["main"] = "sp_join" /\ mode = "Running")
    ~> (pc["main"] = "idle" /\ mode = "Idle" /\ physics_thread = "none")

\* stop() is waiting in join() while the loop, in its last cycle, waits for
\* the physics_mutex that an addParticle or addSpring call holds
C28_Witness ==
  /\ pc["main"] = "sp_join"
  /\ mode = "Running"
  /\ ~running
  /\ physics_mutex = "aux"
  /\ \E t \in Loops : physics_thread = t /\ pc[t] = "physics"

====
